---- MODULE Spec2Model ----
(***************************************************************************)
(* A model of stepfile_runner.py: the scheduler (_topological_sort, Kahn's *)
(* algorithm over the named commands) and the execution engine (run,      *)
(* execute_command) of StepfileRunner, then parse with the group expander, *)
(* _expand_variables and main's exit status.                               *)
(*                                                                         *)
(* A configuration is the StepfileConfig left by parse: the named commands *)
(* in dict (declaration) order, the unnamed commands in file order, each   *)
(* with its group-expanded depends_on list.  A Command object is referred  *)
(* to by the collection that owns it and its position there, so that the   *)
(* aliasing of the code (sorted_commands, queue and results all hold the   *)
(* same Command objects) is kept: runtime fields are written in one place. *)
(***************************************************************************)
EXTENDS Integers, Sequences, FiniteSets, TLC

\* ------------------------------------------------------------------ bounds
NumNamed == 3          \* at most this many named commands
MaxUnnamed == 2        \* at most this many unnamed commands
MaxDepEntries == 2     \* at most this many depends_on entries in a configuration
MaxLines == 3          \* at most this many lines in a Stepfile
MaxTokens == 2         \* at most this many pieces in a text given to _expand_variables

\* ------------------------------------------------------------------ values
NameList == <<"A", "B", "C", "D", "E">>
UnknownName == "M"     \* a dependency name that is no key of named_commands
NoName == ""           \* Command.name of an unnamed command (None: falsy)
None == <<>>           \* Optional[int] None; a value e is <<e>>
ExitCodes == {0, 1}    \* a child's exit code: the code tests it against 0 only
ExitSuccess == 0       \* main returns: the interpreter's exit status
ExitFailure == 1       \* sys.exit(1): failed commands, or an unexpected exception
ExitConfigError == 2   \* sys.exit(2): ValueError
ExitNotFound == 100    \* sys.exit(100): FileNotFoundError

VARIABLES
    named_commands,    \* config.named_commands: Seq of Command, dict order
    unnamed_commands,  \* config.unnamed_commands: Seq of Command, file order
    stop_on_error,     \* run's keyword argument
    in_degree,         \* _topological_sort: name -> remaining in-degree
    graph,             \* _topological_sort: name -> Seq of dependent names
    queue,             \* _topological_sort: deque of Command references
    sorted_commands,   \* Seq of Command references (the execution order)
    completed,         \* run: set of names
    results,           \* run: name -> Command reference
    i,                 \* run: position of the for loop in sorted_commands
    pc,                \* where the program is
    error,             \* the exception raised, if any
    stepfile,          \* the file at stepfile_path: whether it exists, its lines
    config,            \* self.config: "None" or "StepfileConfig"
    groups,            \* config.groups: group name -> set of command names
    variables,         \* config.variables: name -> value
    environ,           \* os.environ: name -> value
    text,              \* _expand_variables: its argument
    expanded,          \* _expand_variables: its return value
    exit_status        \* the exit status main ends the program with

vars == <<named_commands, unnamed_commands, stop_on_error, in_degree, graph,
          queue, sorted_commands, completed, results, i, pc, error,
          stepfile, config, groups, variables, environ, text, expanded,
          exit_status>>

\* what parse and _expand_variables work on; the scheduler and run's loop
\* do not write it
parse_state == <<stepfile, config, groups, variables, environ, text, expanded>>

\* ------------------------------------------------------------------ Command
Command(name, depends_on, in_groups) ==
    [name |-> name, depends_on |-> depends_on, groups |-> in_groups,
     process |-> "None", exit_code |-> None]

NamedRef(k) == [named |-> TRUE, idx |-> k]
UnnamedRef(k) == [named |-> FALSE, idx |-> k]

Cmd(ref) == IF ref.named THEN named_commands[ref.idx] ELSE unnamed_commands[ref.idx]

Keys == {named_commands[k].name : k \in 1..Len(named_commands)}

IndexOf(name) == CHOOSE k \in 1..Len(named_commands) : named_commands[k].name = name

all_commands(name) == NamedRef(IndexOf(name))

Range(s) == {s[k] : k \in 1..Len(s)}

SeqsUpTo(S, n) == UNION {[1..m -> S] : m \in 0..n}

\* the ways to give k commands depends_on lists over the names T with at
\* most b entries in total
RECURSIVE DepLists(_, _, _)
DepLists(k, b, T) ==
    IF k = 0 THEN {<<>>}
    ELSE UNION {{<<l>> \o rest : rest \in DepLists(k - 1, b - Len(l), T)} :
                   l \in SeqsUpTo(T, b)}

NoError == [kind |-> "None", dep |-> "", name |-> "", remaining |-> {}]

\* ------------------------------------------------------------------ Init
\* a Stepfile that exists, with its lines
Stepfile(lines) == [exists |-> TRUE, lines |-> lines]

\* nothing of _topological_sort or run has happened, main has not ended
NotStarted ==
    /\ in_degree = <<>>
    /\ graph = <<>>
    /\ queue = <<>>
    /\ sorted_commands = <<>>
    /\ completed = {}
    /\ results = <<>>
    /\ i = 0
    /\ error = NoError
    /\ exit_status = None

\* _expand_variables is not being looked at
NoExpansion ==
    /\ environ = <<>>
    /\ text = <<>>
    /\ expanded = None

\* The runner after a successful parse of some Stepfile: run is called.
Init ==
    /\ \E n \in 0..NumNamed, m \in 0..MaxUnnamed :
         \E deps \in DepLists(n + m, MaxDepEntries,
                              {NameList[k] : k \in 1..n} \cup {UnknownName}) :
           /\ named_commands = [k \in 1..n |-> Command(NameList[k], deps[k], <<>>)]
           /\ unnamed_commands = [k \in 1..m |-> Command(NoName, deps[n + k], <<>>)]
    /\ stop_on_error \in BOOLEAN
    /\ NotStarted
    /\ pc = "sort"
    /\ stepfile = Stepfile(<<>>)
    /\ config = "StepfileConfig"
    /\ groups = <<>>
    /\ variables = <<>>
    /\ NoExpansion


\* ------------------------------------------------------------------ _topological_sort
UnknownDependency(dep, name) ==
    [kind |-> "UnknownDependency", dep |-> dep, name |-> name, remaining |-> {}]

\* One edge: graph[dep].append(name); in_degree[name] += 1
AddEdge(st, dep, name) ==
    [st EXCEPT !.graph[dep] = Append(@, name), !.in_degree[name] = @ + 1]

\* The loop over one command's depends_on, from position k; it stops at the
\* first dependency that is no key of all_commands.
RECURSIVE AddDeps(_, _, _, _)
AddDeps(name, deps, k, st) ==
    IF k > Len(deps) THEN st
    ELSE IF deps[k] \notin Keys
         THEN [st EXCEPT !.error = UnknownDependency(deps[k], name)]
         ELSE AddDeps(name, deps, k + 1, AddEdge(st, deps[k], name))

\* The loop over all_commands.items(), from position k, in dict order.
RECURSIVE CalcInDegrees(_, _)
CalcInDegrees(k, st) ==
    IF k > Len(named_commands) \/ st.error # NoError THEN st
    ELSE CalcInDegrees(k + 1,
             AddDeps(named_commands[k].name, named_commands[k].depends_on, 1, st))

\* in_degree and graph are defaultdicts: a missing key reads 0, resp. [].
EmptyGraph ==
    [in_degree |-> [n \in Keys |-> 0], graph |-> [n \in Keys |-> <<>>], error |-> NoError]

\* deque([cmd for name, cmd in all_commands.items() if in_degree[name] == 0])
SeedQueue(deg) ==
    SelectSeq([k \in 1..Len(named_commands) |-> NamedRef(k)],
              LAMBDA r : deg[named_commands[r.idx].name] = 0)

BuildGraph ==
    /\ pc = "sort"
    /\ LET st == CalcInDegrees(1, EmptyGraph) IN
         IF st.error # NoError
         THEN /\ pc' = "raised"
              /\ error' = st.error
              /\ UNCHANGED <<in_degree, graph, queue>>
         ELSE /\ pc' = "kahn"
              /\ in_degree' = st.in_degree
              /\ graph' = st.graph
              /\ queue' = SeedQueue(st.in_degree)
              /\ UNCHANGED error
    /\ UNCHANGED <<named_commands, unnamed_commands, stop_on_error,
                   sorted_commands, completed, results, i>>
    /\ UNCHANGED <<parse_state, exit_status>>

\* Mutant of ReduceOne: the dependent is enqueued without the test for a
\* zero in-degree.
ReduceOneEager(st, dependent_name) ==
    [in_degree |-> [st.in_degree EXCEPT ![dependent_name] = @ - 1],
     queue |-> Append(st.queue, all_commands(dependent_name))]

\* Mutant of ReduceOne: appendleft instead of append.
ReduceOneFront(st, dependent_name) ==
    LET d == st.in_degree[dependent_name] - 1 IN
      [in_degree |-> [st.in_degree EXCEPT ![dependent_name] = d],
       queue |-> IF d = 0 THEN <<all_commands(dependent_name)>> \o st.queue
                 ELSE st.queue]

\* in_degree[dependent_name] -= 1; if it is 0 now: queue.append(...)
ReduceOne(st, dependent_name) ==
    LET d == st.in_degree[dependent_name] - 1 IN
      [in_degree |-> [st.in_degree EXCEPT ![dependent_name] = d],
       queue |-> IF d = 0 THEN Append(st.queue, all_commands(dependent_name))
                 ELSE st.queue]

\* for dependent_name in graph[cmd.name], from position k
RECURSIVE ReduceDependents(_, _, _)
ReduceDependents(dependents, k, st) ==
    IF k > Len(dependents) THEN st
    ELSE ReduceDependents(dependents, k + 1, ReduceOne(st, dependents[k]))

\* One iteration of `while queue`.
KahnStep ==
    /\ pc = "kahn"
    /\ queue # <<>>
    /\ LET cmd == Head(queue)
           name == Cmd(cmd).name
           st0 == [in_degree |-> in_degree, queue |-> Tail(queue)]
           st == IF name # NoName THEN ReduceDependents(graph[name], 1, st0) ELSE st0
       IN /\ sorted_commands' = Append(sorted_commands, cmd)
          /\ in_degree' = st.in_degree
          /\ queue' = st.queue
    /\ UNCHANGED <<named_commands, unnamed_commands, stop_on_error, graph,
                   completed, results, i, pc, error>>
    /\ UNCHANGED <<parse_state, exit_status>>

\* Mutant of Remaining: the commands already ordered are not taken out.
RemainingAll == Keys

\* set(all_commands.keys()) - {cmd.name for cmd in sorted_commands}
Remaining == Keys \ {Cmd(sorted_commands[k]).name : k \in 1..Len(sorted_commands)}

CircularDependency(remaining) ==
    [kind |-> "CircularDependency", dep |-> "", name |-> "", remaining |-> remaining]

\* Mutant of Unsortable: the comparison is written as >.
UnsortableGreater == Len(sorted_commands) > Len(named_commands)

\* if len(sorted_commands) != len(all_commands)
Unsortable == Len(sorted_commands) # Len(named_commands)

\* Mutant of ExtendUnnamed: the unnamed commands are put in front.
ExtendUnnamedFirst(sorted) ==
    [k \in 1..Len(unnamed_commands) |-> UnnamedRef(k)] \o sorted

\* sorted_commands.extend(self.config.unnamed_commands)
ExtendUnnamed(sorted) ==
    sorted \o [k \in 1..Len(unnamed_commands) |-> UnnamedRef(k)]

\* The queue is empty: the cycle check, the unnamed commands, and the start
\* of run's loop (completed = set(), results = {}).
KahnFinish ==
    /\ pc = "kahn"
    /\ queue = <<>>
    /\ IF Unsortable
       THEN /\ pc' = "raised"
            /\ error' = CircularDependency(Remaining)
            /\ UNCHANGED <<sorted_commands, i>>
       ELSE /\ pc' = "loop"
            /\ sorted_commands' = ExtendUnnamed(sorted_commands)
            /\ i' = 1
            /\ UNCHANGED error
    /\ completed' = {}
    /\ results' = <<>>
    /\ UNCHANGED <<named_commands, unnamed_commands, stop_on_error,
                   in_degree, graph, queue>>
    /\ UNCHANGED <<parse_state, exit_status>>

\* ------------------------------------------------------------------ run
\* Write a Command object's runtime fields (the object is shared by every
\* collection that refers to it).
SetCommand(ref, c) ==
    IF ref.named
    THEN /\ named_commands' = [named_commands EXCEPT ![ref.idx] = c]
         /\ UNCHANGED unnamed_commands
    ELSE /\ unnamed_commands' = [unnamed_commands EXCEPT ![ref.idx] = c]
         /\ UNCHANGED named_commands

\* dep_cmd.exit_code != 0 (None != 0 is true)
Failed(c) == c.exit_code # <<0>>

\* The inner loop `for dep in cmd.depends_on`, from position k: it raises,
\* returns, or falls through to execute_command.  The `continue` of the
\* stop_on_error=False branch continues this inner loop.
RECURSIVE CheckDeps(_, _)
CheckDeps(deps, k) ==
    IF k > Len(deps) THEN [kind |-> "execute", dep |-> ""]
    ELSE IF deps[k] \notin completed THEN [kind |-> "raise", dep |-> deps[k]]
    ELSE IF Failed(Cmd(results[deps[k]])) /\ stop_on_error
         THEN [kind |-> "return", dep |-> deps[k]]
    ELSE CheckDeps(deps, k + 1)

DependencyNotCompleted(dep, name) ==
    [kind |-> "DependencyNotCompleted", dep |-> dep, name |-> name, remaining |-> {}]

LaunchFailure(name) ==
    [kind |-> "LaunchFailure", dep |-> "", name |-> name, remaining |-> {}]

\* Mutant of Launch: the child is started and the loop goes on to the next
\* command without waiting for it.
LaunchNoWait(cmd) ==
    /\ SetCommand(cmd, [Cmd(cmd) EXCEPT !.process = "running"])
    /\ pc' = "loop"
    /\ i' = i + 1
    /\ UNCHANGED error

\* execute_command succeeded: command.process = subprocess.Popen(...); run
\* goes on to cmd.process.communicate().
Launch(cmd) ==
    /\ SetCommand(cmd, [Cmd(cmd) EXCEPT !.process = "running"])
    /\ pc' = "wait"
    /\ UNCHANGED <<error, i>>

\* The head of one iteration of run's for loop: the dependency check, then
\* execute_command.  Popen either starts the child (command.process is set)
\* or raises (no such executable, permission denied).
RunStep ==
    /\ pc = "loop"
    /\ i <= Len(sorted_commands)
    /\ LET cmd == sorted_commands[i]
           out == CheckDeps(Cmd(cmd).depends_on, 1)
       IN CASE out.kind = "raise" ->
                 /\ pc' = "raised"
                 /\ error' = DependencyNotCompleted(out.dep, Cmd(cmd).name)
                 /\ UNCHANGED <<named_commands, unnamed_commands, i>>
            [] out.kind = "return" ->
                 /\ pc' = "returned"
                 /\ UNCHANGED <<named_commands, unnamed_commands, error, i>>
            [] out.kind = "execute" ->
                 \E started \in BOOLEAN :
                   IF started
                   THEN Launch(cmd)
                   ELSE /\ pc' = "raised"
                        /\ error' = LaunchFailure(Cmd(cmd).name)
                        /\ UNCHANGED <<named_commands, unnamed_commands, i>>
    /\ UNCHANGED <<stop_on_error, in_degree, graph, queue, sorted_commands,
                   completed, results>>
    /\ UNCHANGED <<parse_state, exit_status>>

\* Mutant of HaltsOnFailure: a failure never returns.
HaltsOnFailureNever(code) == FALSE

\* Mutant of HaltsOnFailure: stop_on_error is not consulted.
HaltsOnFailureAlways(code) == code # 0

\* if cmd.exit_code != 0 and stop_on_error: return results
HaltsOnFailure(code) == code # 0 /\ stop_on_error

\* Mutant of NextCommand: the loop stays at the command it has just run.
NextCommandStays == i

\* Mutant of NextCommand: the loop steps over the command after this one.
NextCommandSkips == i + 2

\* `for cmd in sorted_commands` takes the next element of the order.
NextCommand == i + 1

\* Mutant of HasName: the outcome of every command is recorded.
HasNameAlways(name) == TRUE

\* Mutant of HasName: no outcome is ever recorded.
HasNameNever(name) == FALSE

\* if cmd.name: (an unnamed command has name None)
HasName(name) == name # NoName

\* cmd.process.communicate() returns: the child has terminated with some
\* exit code, which is stored on the Command; then the rest of the iteration.
Communicate ==
    /\ pc = "wait"
    /\ \E code \in ExitCodes :
         LET cmd == sorted_commands[i]
             name == Cmd(cmd).name
         IN /\ SetCommand(cmd, [Cmd(cmd) EXCEPT !.process = "terminated",
                                                 !.exit_code = <<code>>])
            /\ IF HaltsOnFailure(code)
               THEN /\ pc' = "returned"
                    /\ UNCHANGED <<completed, results, i>>
               ELSE /\ pc' = "loop"
                    /\ i' = NextCommand
                    /\ IF HasName(name)
                       THEN /\ completed' = completed \cup {name}
                            /\ results' = (name :> cmd) @@ results
                       ELSE UNCHANGED <<completed, results>>
    /\ UNCHANGED <<stop_on_error, in_degree, graph, queue, sorted_commands, error>>
    /\ UNCHANGED <<parse_state, exit_status>>

\* The for loop is exhausted: return results.
RunReturn ==
    /\ pc = "loop"
    /\ i > Len(sorted_commands)
    /\ pc' = "returned"
    /\ UNCHANGED <<named_commands, unnamed_commands, stop_on_error, in_degree,
                   graph, queue, sorted_commands, completed, results, i, error>>
    /\ UNCHANGED <<parse_state, exit_status>>

\* ------------------------------------------------------------------ main
\* failed = [name for name, cmd in results.items() if cmd.exit_code != 0]
failed == {name \in DOMAIN results : Failed(Cmd(results[name]))}

\* run returned: sys.exit(1) if failed is not empty, else main returns.
ReturnStatus == IF failed # {} THEN ExitFailure ELSE ExitSuccess

\* The except clauses of main, by the class of the exception.  parse's
\* missing file is a FileNotFoundError; a malformed annotation, an unknown
\* dependency and a cycle are ValueErrors; 'Dependency not completed' is a
\* RuntimeError.  execute_command raises FileNotFoundError when the
\* executable does not exist, ValueError when shlex.split rejects the
\* command text, and another OSError (permission denied) otherwise.
ExceptStatus(e) ==
    CASE e.kind = "FileNotFound" -> {ExitNotFound}
      [] e.kind \in {"InvalidSyntax", "UnknownDependency", "CircularDependency"} ->
           {ExitConfigError}
      [] e.kind = "DependencyNotCompleted" -> {ExitFailure}
      [] e.kind = "LaunchFailure" -> {ExitNotFound, ExitConfigError, ExitFailure}

\* main after runner.parse() and runner.run(stop_on_error=True): the exit
\* status the process ends with.
MainExit ==
    /\ stop_on_error
    /\ exit_status = None
    /\ \/ /\ pc = "returned"
          /\ exit_status' = <<ReturnStatus>>
       \/ /\ pc = "raised"
          /\ \E status \in ExceptStatus(error) : exit_status' = <<status>>
    /\ UNCHANGED <<named_commands, unnamed_commands, stop_on_error, in_degree,
                   graph, queue, sorted_commands, completed, results, i, pc,
                   error, parse_state>>

Next ==
    \/ BuildGraph
    \/ KahnStep
    \/ KahnFinish
    \/ RunStep
    \/ Communicate
    \/ RunReturn
    \/ MainExit

Spec == Init /\ [][Next]_vars

\* The program is one thread of sequential code: a step of its own that can
\* be taken is taken.  The return of communicate() is the child's doing and
\* gets no fairness: a child may never terminate.
ProgramFairness ==
    /\ WF_vars(BuildGraph)
    /\ WF_vars(KahnStep)
    /\ WF_vars(KahnFinish)
    /\ WF_vars(RunStep)
    /\ WF_vars(RunReturn)

FairSpec == Init /\ [][Next]_vars /\ ProgramFairness

\* ------------------------------------------------------------------ Stepfile lines
\* A line is the annotation keyword it begins with (cut where one keyword is
\* the beginning of another, so that startswith is the prefix relation), the
\* text between the annotation's parentheses ("": no parenthesised name
\* follows the keyword), the identifier before `=` ("": the line has no
\* `name =`), and the text after `=` of an assignment.
Line(head, arg, name, value) ==
    [head |-> head, arg |-> arg, name |-> name, value |-> value]

AtGroup == <<"@group">>
AtDepends == <<"@depends">>
AtDependsGroup == <<"@depends", "_group">>

\* the lines the model's Stepfiles are written with
GroupNames == {"g1", "a"}
UpperCase == {"V"}
FileLines ==
    {Line(AtGroup, g, n, "") : g \in GroupNames, n \in {"a", "b", NoName}} \cup
    {Line(AtDepends, d, n, "") : d \in {"a", "g1"}, n \in {"b", "c", NoName}} \cup
    {Line(AtDependsGroup, "g1", n, "") : n \in {"c", NoName}} \cup
    {Line(<<>>, "", n, "") : n \in {"a", NoName}} \cup
    {Line(<<>>, "", "V", v) : v \in {"", "v"}} \cup
    {Line(AtGroup, "", NoName, "")}

NoStepfile == [exists |-> FALSE, lines |-> <<>>]

\* line.startswith(keyword)
StartsWith(line, keyword) ==
    /\ Len(line.head) >= Len(keyword)
    /\ SubSeq(line.head, 1, Len(keyword)) = keyword

\* re.match(keyword + r'\(([\w\-,\s]+)\)\s+...', line): the keyword, at once
\* an opening parenthesis, and a non-empty text up to the closing one
Matches(line, keyword) == line.head = keyword /\ line.arg # ""

\* var_name.isupper()
IsUpper(name) == name \in UpperCase

FileNotFound ==
    [kind |-> "FileNotFound", dep |-> "", name |-> "", remaining |-> {}]

\* ValueError(f"Invalid {annotation} syntax: {line}")
InvalidSyntax(annotation) ==
    [kind |-> "InvalidSyntax", dep |-> "", name |-> annotation, remaining |-> {}]

\* ------------------------------------------------------------------ parse
\* parse's local variables before the loop over the lines
Locals ==
    [variables |-> <<>>, named_commands |-> <<>>, unnamed_commands |-> <<>>,
     groups |-> <<>>, error |-> NoError]

\* named_commands[name] = command: a name already a key keeps its place
PutNamed(named, command) ==
    IF \E k \in 1..Len(named) : named[k].name = command.name
    THEN [k \in 1..Len(named) |->
            IF named[k].name = command.name THEN command ELSE named[k]]
    ELSE Append(named, command)

\* groups[group_name].add(name) on the defaultdict(set)
AddMember(grps, group_name, name) ==
    IF group_name \in DOMAIN grps
    THEN [grps EXCEPT ![group_name] = @ \cup {name}]
    ELSE (group_name :> {name}) @@ grps

\* A command with depends_on and groups lists is stored: under its name, or
\* appended to the unnamed commands.
PutCommand(st, name, depends_on, in_groups) ==
    IF name # NoName
    THEN [st EXCEPT !.named_commands = PutNamed(@, Command(name, depends_on, in_groups))]
    ELSE [st EXCEPT !.unnamed_commands = Append(@, Command(NoName, depends_on, in_groups))]

\* _is_variable_assignment(line)
IsVariableAssignment(line) == line.name # NoName /\ IsUpper(line.name)

\* One iteration of parse's while loop, in the order of its tests.
ParseLine(line, st) ==
    IF StartsWith(line, AtGroup) THEN
        IF ~Matches(line, AtGroup) THEN [st EXCEPT !.error = InvalidSyntax("@group")]
        ELSE LET put == PutCommand(st, line.name, <<>>, <<line.arg>>)
             IN IF line.name # NoName
                THEN [put EXCEPT !.groups = AddMember(@, line.arg, line.name)]
                ELSE put
    ELSE IF StartsWith(line, AtDepends) THEN
        IF ~Matches(line, AtDepends) THEN [st EXCEPT !.error = InvalidSyntax("@depends")]
        ELSE PutCommand(st, line.name, <<line.arg>>, <<>>)
    ELSE IF StartsWith(line, AtDependsGroup) THEN
        IF ~Matches(line, AtDependsGroup)
        THEN [st EXCEPT !.error = InvalidSyntax("@depends_group")]
        ELSE PutCommand(st, line.name, <<line.arg>>, <<>>)
    ELSE IF IsVariableAssignment(line) THEN
        [st EXCEPT !.variables = (line.name :> line.value) @@ @]
    ELSE PutCommand(st, line.name, <<>>, <<>>)

\* the while loop from line k, left at the first exception
RECURSIVE ParseLines(_, _, _)
ParseLines(lines, k, st) ==
    IF k > Len(lines) \/ st.error # NoError THEN st
    ELSE ParseLines(lines, k + 1, ParseLine(lines[k], st))

\* ------------------------------------------------------------------ _expand_group_dependencies
\* the orders in which iterating a set can yield its elements
Perms(S) == {p \in [1..Cardinality(S) -> S] : Range(p) = S}

\* Mutant of PlainDep: the else branch is missing, the name is dropped.
PlainDepDropped(dep) == {<<>>}

\* else: expanded_deps.append(dep)
PlainDep(dep) == {<<dep>>}

\* The loop `for dep in command.depends_on` from position k: every list it
\* can build (extend() takes a group's members in the set's iteration order).
RECURSIVE expanded_deps(_, _, _)
expanded_deps(depends_on, k, grps) ==
    IF k > Len(depends_on) THEN {<<>>}
    ELSE LET dep == depends_on[k]
             part == IF dep \in DOMAIN grps THEN Perms(grps[dep]) ELSE PlainDep(dep)
         IN {h \o t : h \in part, t \in expanded_deps(depends_on, k + 1, grps)}

\* command.depends_on = expanded_deps, for every command of a collection
RECURSIVE ExpandCommands(_, _, _)
ExpandCommands(commands, k, grps) ==
    IF k > Len(commands) THEN {<<>>}
    ELSE {<<[commands[k] EXCEPT !.depends_on = d]>> \o t :
            d \in expanded_deps(commands[k].depends_on, 1, grps),
            t \in ExpandCommands(commands, k + 1, grps)}

\* self.config as a value
self_config ==
    [config |-> config, variables |-> variables, named_commands |-> named_commands,
     unnamed_commands |-> unnamed_commands, groups |-> groups]

\* StepfileConfig(variables=..., named_commands=..., ..., groups=dict(groups))
StepfileConfig(st) ==
    [config |-> "StepfileConfig", variables |-> st.variables,
     named_commands |-> st.named_commands,
     unnamed_commands |-> st.unnamed_commands, groups |-> st.groups]

\* the configurations _expand_group_dependencies can turn c into
expand_group_dependencies(c) ==
    {[c EXCEPT !.named_commands = nc, !.unnamed_commands = uc] :
        nc \in ExpandCommands(c.named_commands, 1, c.groups),
        uc \in ExpandCommands(c.unnamed_commands, 1, c.groups)}

\* self.config, with the Command objects it owns, becomes c
SetConfig(c) ==
    /\ config' = c.config
    /\ variables' = c.variables
    /\ named_commands' = c.named_commands
    /\ unnamed_commands' = c.unnamed_commands
    /\ groups' = c.groups

\* Mutant of ConfigAfterRaise: the configuration built so far is stored
\* before the exception leaves parse.
ConfigAfterRaiseBuilt(st) == StepfileConfig(st)

\* An exception leaves parse before line 127: self.config is not assigned.
ConfigAfterRaise(st) == self_config

\* parse(): the existence test, the loop over the lines, the assignment of
\* self.config and the group expansion.
Parse ==
    /\ pc = "parse"
    /\ IF ~stepfile.exists
       THEN /\ pc' = "raised"
            /\ error' = FileNotFound
            /\ SetConfig(ConfigAfterRaise(Locals))
       ELSE LET st == ParseLines(stepfile.lines, 1, Locals)
            IN IF st.error # NoError
               THEN /\ pc' = "raised"
                    /\ error' = st.error
                    /\ SetConfig(ConfigAfterRaise(st))
               ELSE /\ pc' = "sort"
                    /\ \E c \in expand_group_dependencies(StepfileConfig(st)) :
                         SetConfig(c)
                    /\ UNCHANGED error
    /\ UNCHANGED <<stop_on_error, in_degree, graph, queue, sorted_commands,
                   completed, results, i, stepfile, environ, text, expanded,
                   exit_status>>

\* The runner as constructed (self.config = None) for some Stepfile, which
\* may not exist; main or run is about to call parse.
InitParse ==
    /\ stepfile \in {NoStepfile} \cup {Stepfile(l) : l \in SeqsUpTo(FileLines, MaxLines)}
    /\ config = "None"
    /\ named_commands = <<>>
    /\ unnamed_commands = <<>>
    /\ groups = <<>>
    /\ variables = <<>>
    /\ stop_on_error \in BOOLEAN
    /\ NotStarted
    /\ pc = "parse"
    /\ NoExpansion

NextParse ==
    \/ Parse
    \/ BuildGraph
    \/ KahnStep
    \/ KahnFinish
    \/ RunStep
    \/ Communicate
    \/ RunReturn
    \/ MainExit

SpecParse == InitParse /\ [][NextParse]_vars

\* _expand_group_dependencies() called once more on the parsed configuration
ExpandAgain ==
    /\ pc = "sort"
    /\ config = "StepfileConfig"
    /\ pc' = "expanded"
    /\ \E c \in expand_group_dependencies(self_config) : SetConfig(c)
    /\ UNCHANGED <<stop_on_error, in_degree, graph, queue, sorted_commands,
                   completed, results, i, error, stepfile, environ, text,
                   expanded, exit_status>>

NextExpand ==
    \/ Parse
    \/ ExpandAgain

SpecExpand == InitParse /\ [][NextExpand]_vars

\* ------------------------------------------------------------------ _expand_variables
\* A text is the sequence of its pieces: the matches of \$(\w+)\$, each with
\* the name it holds, and the stretches of other text between them.
Literal(s) == [var |-> FALSE, s |-> s]
Placeholder(name) == [var |-> TRUE, s |-> name]

VarNames == {"V", "W"}
Texts == SeqsUpTo({Literal("x")} \cup {Placeholder(name) : name \in VarNames}, MaxTokens)

\* the dicts with keys among K and values in V
Dicts(K, V) == UNION {[D -> V] : D \in SUBSET K}

\* dict.get(key): the value, or None
get(dict, key) == IF key \in DOMAIN dict THEN <<dict[key]>> ELSE None

\* the truth value of an Optional[str]: None and "" are false
Truthy(value) == value # None /\ value[1] # ""

\* a or b
Or(a, b) == IF Truthy(a) THEN a ELSE b

\* replacer(match): variables.get(var_name) or os.environ.get(var_name) or
\* match.group(0); the last operand is the matched text itself.
replacer(match) ==
    LET value == Or(get(variables, match.s), get(environ, match.s))
    IN IF Truthy(value) THEN Literal(value[1]) ELSE match

\* re.sub(r'\$(\w+)\$', replacer, text)
expand_variables(t) ==
    [k \in 1..Len(t) |-> IF t[k].var THEN replacer(t[k]) ELSE t[k]]

\* A runner with a config, and a text about to be expanded.
InitVars ==
    /\ text \in Texts
    /\ variables \in Dicts(VarNames, {"", "v"})
    /\ environ \in Dicts(VarNames, {"", "e"})
    /\ expanded = None
    /\ config = "StepfileConfig"
    /\ stepfile = Stepfile(<<>>)
    /\ named_commands = <<>>
    /\ unnamed_commands = <<>>
    /\ groups = <<>>
    /\ stop_on_error = TRUE
    /\ NotStarted
    /\ pc = "expand"

\* _expand_variables(text) returns
ExpandVariables ==
    /\ pc = "expand"
    /\ expanded' = <<expand_variables(text)>>
    /\ pc' = "replaced"
    /\ UNCHANGED <<named_commands, unnamed_commands, stop_on_error, in_degree,
                   graph, queue, sorted_commands, completed, results, i, error,
                   stepfile, config, groups, variables, environ, text,
                   exit_status>>

NextVars == ExpandVariables

SpecVars == InitVars /\ [][NextVars]_vars

\* ------------------------------------------------------------------ properties
\* The named-command dependency graph, read off the configuration (not off
\* the scheduler's in_degree/graph bookkeeping).
DepSet(name) == Range(named_commands[IndexOf(name)].depends_on)

RECURSIVE Closure(_, _)
Closure(S, n) ==
    IF n = 0 THEN S
    ELSE Closure(S \cup {d \in Keys : \E x \in S : d \in DepSet(x)}, n - 1)

\* every named command `name` depends on, directly or transitively
TransDeps(name) == Closure(DepSet(name) \cap Keys, Len(named_commands))

Acyclic == \A name \in Keys : name \notin TransDeps(name)

NoUnknownNamed == \A name \in Keys : DepSet(name) \subseteq Keys

SchedReturned ==
    \/ pc \in {"loop", "wait", "returned"}
    \/ pc = "raised" /\ error.kind \in {"DependencyNotCompleted", "LaunchFailure"}

SchedRaised ==
    pc = "raised" /\ error.kind \in {"UnknownDependency", "CircularDependency"}

\* _topological_sort has just returned its order to run
SchedJustReturned == pc = "loop" /\ i = 1

PosOf(ref) == CHOOSE k \in 1..Len(sorted_commands) : sorted_commands[k] = ref

Count(ref) == Cardinality({k \in 1..Len(sorted_commands) : sorted_commands[k] = ref})

\* C1: for an acyclic named-command graph without unknown dependencies the
\* scheduler does not raise, and in the order it returns every named command
\* stands after every named command it depends on, directly or transitively.
C1_TopologicalOrder ==
    /\ SchedRaised => ~(Acyclic /\ NoUnknownNamed)
    /\ SchedJustReturned =>
         \A a \in Keys : \A b \in TransDeps(a) :
             /\ Count(all_commands(a)) = 1
             /\ Count(all_commands(b)) = 1
             /\ PosOf(all_commands(b)) < PosOf(all_commands(a))

\* A chain of three commands declared against the direction of the
\* dependencies has been ordered.
C1_Witness ==
    /\ pc = "loop"
    /\ Len(named_commands) = 3
    /\ "B" \in DepSet("A")
    /\ "C" \in DepSet("B")
    /\ "C" \in TransDeps("A")
    /\ sorted_commands[1] = all_commands("C")

\* C8: on success the order returned is every named command exactly once,
\* then every unnamed command exactly once in file order.
C8_NamedThenUnnamed ==
    SchedJustReturned =>
        /\ Len(sorted_commands) = Len(named_commands) + Len(unnamed_commands)
        /\ \A k \in 1..Len(named_commands) :
             /\ Count(NamedRef(k)) = 1
             /\ PosOf(NamedRef(k)) <= Len(named_commands)
        /\ \A k \in 1..Len(unnamed_commands) :
             sorted_commands[Len(named_commands) + k] = UnnamedRef(k)

C8_Witness ==
    /\ pc = "loop"
    /\ Len(named_commands) = 3
    /\ Len(unnamed_commands) = 2
    /\ sorted_commands[1] # NamedRef(1)

Refs ==
    {NamedRef(k) : k \in 1..Len(named_commands)} \cup
    {UnnamedRef(k) : k \in 1..Len(unnamed_commands)}

Launched(ref) == Cmd(ref).process # "None"

NoLaunch == \A ref \in Refs : ~Launched(ref)

SchedFinished == pc \notin {"sort", "kahn"}

\* some command, named or unnamed, names a dependency that is no named command
HasUnknown == \E ref \in Refs : ~(Range(Cmd(ref).depends_on) \subseteq Keys)

\* C5: with an unknown dependency on any command, named or unnamed, run
\* launches no process, does not return, and the error it raises is the
\* unknown-dependency error naming the missing name and its requester.
\* (Stated for acyclic named-command graphs, where no other structural
\* error competes with it.)
C5_UnknownDependencyRejected ==
    (HasUnknown /\ Acyclic) =>
        /\ NoLaunch
        /\ pc # "returned"
        /\ pc = "raised" =>
             /\ error.kind = "UnknownDependency"
             /\ error.dep \notin Keys
             /\ \E ref \in Refs : /\ Cmd(ref).name = error.name
                                  /\ error.dep \in Range(Cmd(ref).depends_on)

\* the named commands that lie on a cycle of the named-command graph
OnCycle == {name \in Keys : name \in TransDeps(name)}

RaisedCircular ==
    /\ pc = "raised"
    /\ error.kind = "CircularDependency"
    /\ OnCycle \subseteq error.remaining

\* C6 as stated: whenever the named-command graph has a cycle, scheduling
\* ends with the circular-dependency error whose set holds every command on
\* a cycle, and no process is launched.
C6_CycleRaisesCircular ==
    (~Acyclic /\ SchedFinished) => (RaisedCircular /\ NoLaunch)

\* a step that launches a process
LaunchStep == \E ref \in Refs : ~Launched(ref) /\ Launched(ref)'

\* C6 as amended: a cycle always makes scheduling fail before any launch;
\* the error is the circular-dependency error (holding every command on a
\* cycle) when no named command has an unknown dependency, and otherwise the
\* unknown-dependency error, which the in-degree pass raises first.
\* In full: the scheduler returns an order only for an acyclic graph; when
\* it raises on a cyclic one the error is as said and nothing has been
\* launched; and no step launches a process while the graph has a cycle.
C6_CycleRejected ==
    /\ [](SchedJustReturned => Acyclic)
    /\ [](SchedRaised =>
            /\ NoLaunch
            /\ ~Acyclic => IF NoUnknownNamed THEN RaisedCircular
                            ELSE error.kind = "UnknownDependency")
    /\ [][LaunchStep => Acyclic]_vars

\* Two commands depending on each other, a third one free: the error names
\* the two and nothing ran.
C6_Witness ==
    /\ RaisedCircular
    /\ OnCycle = {"A", "B"}
    /\ "B" \in DepSet("A")
    /\ "A" \in DepSet("B")
    /\ Len(sorted_commands) = 1

\* a self-dependency is rejected in the same way
C6_WitnessSelf ==
    /\ RaisedCircular
    /\ Len(named_commands) = 1
    /\ DepSet("A") = {"A"}

Emitted == {Cmd(sorted_commands[k]).name : k \in 1..Len(sorted_commands)}

\* the positions of the named commands that are eligible: in-degree zero
\* and not yet emitted
Eligible ==
    {k \in 1..Len(named_commands) :
        /\ in_degree[named_commands[k].name] = 0
        /\ named_commands[k].name \notin Emitted}

\* C7 as stated: whenever commands are eligible, the next one emitted (the
\* head of the queue) is the eligible command declared earliest.
C7_EarliestDeclaredFirst ==
    (pc = "kahn" /\ Eligible # {}) =>
        /\ queue # <<>>
        /\ \A k \in Eligible : Head(queue).idx <= k

\* the named commands, in declaration order, whose position is in S
DeclOrdered(S) ==
    SelectSeq([k \in 1..Len(named_commands) |-> NamedRef(k)], LAMBDA r : r.idx \in S)

\* the positions of the named commands all of whose dependencies are in E
Ready(E) == {k \in 1..Len(named_commands) : Range(named_commands[k].depends_on) \subseteq E}

\* C7 as amended: the ready queue is first-in first-out.  It starts as the
\* commands without dependencies in declaration order; each step emits its
\* head and appends, in declaration order, the commands that this emission
\* made eligible.  The next queue and order are functions of the current
\* ones, so one configuration has one order.
C7_FifoTieBreak ==
    [][/\ (pc = "sort" /\ pc' = "kahn") => queue' = DeclOrdered(Ready({}))
       /\ (pc = "kahn" /\ queue # <<>>) =>
            /\ sorted_commands' = Append(sorted_commands, Head(queue))
            /\ queue' = Tail(queue) \o
                 DeclOrdered(Ready(Emitted \cup {Cmd(Head(queue)).name}) \ Ready(Emitted))
      ]_vars

\* C declared first depends on A; after A is emitted the queue holds B
\* before C, although C is declared earlier.
C7_Witness ==
    /\ pc = "kahn"
    /\ Len(queue) = 2
    /\ queue[1].idx > queue[2].idx
    /\ Len(sorted_commands) = 1

\* the command ran and exited non-zero
RanAndFailed(ref) == Cmd(ref).exit_code \notin {None, <<0>>}

\* C2: no launched command has a declared dependency that ran and exited
\* non-zero (under either stop_on_error setting).
C2_NoLaunchAfterFailedDependency ==
    \A ref \in Refs :
        Launched(ref) =>
            \A dep \in Range(Cmd(ref).depends_on) \cap Keys :
                ~RanAndFailed(all_commands(dep))

\* C3: with stop_on_error, a non-zero exit ends the run at once: run has
\* returned at the failing command, nothing after it in the order was
\* launched, and a command depending on it is neither launched nor in results.
C3_HaltOnFirstFailure ==
    stop_on_error =>
        \A ref \in Refs :
            RanAndFailed(ref) =>
                /\ pc = "returned"
                /\ sorted_commands[i] = ref
                /\ \A p \in (i + 1)..Len(sorted_commands) : ~Launched(sorted_commands[p])
                /\ \A b \in Refs :
                     Cmd(ref).name \in Range(Cmd(b).depends_on) =>
                         /\ ~Launched(b)
                         /\ Cmd(b).name \notin DOMAIN results

C3_Witness ==
    /\ stop_on_error
    /\ pc = "returned"
    /\ Len(named_commands) = 3
    /\ RanAndFailed(all_commands("A"))
    /\ DepSet("B") = {"A"}
    /\ DepSet("C") = {}
    /\ Cmd(all_commands("C")).exit_code = None

\* C4: with stop_on_error, the results run returns hold the entry of the
\* named command that exited non-zero, with its exit code.
C4_FailedCommandRecorded ==
    (stop_on_error /\ pc = "returned") =>
        \A k \in 1..Len(named_commands) :
            RanAndFailed(NamedRef(k)) =>
                /\ named_commands[k].name \in DOMAIN results
                /\ Cmd(results[named_commands[k].name]).exit_code = named_commands[k].exit_code

\* every named command the command `ref` depends on, directly or transitively
TransDepsOf(ref) == Closure(Range(Cmd(ref).depends_on) \cap Keys, Len(named_commands))

NoFailedDeps(ref) == \A d \in TransDepsOf(ref) : ~RanAndFailed(all_commands(d))

\* C9: without stop_on_error a non-zero exit does not end the run: run
\* returns only past the end of the order, and every command the loop has
\* passed, none of whose dependencies failed, has been launched.
C9_FailureDoesNotStopRun ==
    ~stop_on_error =>
        /\ pc = "returned" => i > Len(sorted_commands)
        /\ SchedReturned =>
             \A p \in 1..Len(sorted_commands) :
                 p < i => (Launched(sorted_commands[p]) \/ ~NoFailedDeps(sorted_commands[p]))

\* The first command failed and the run went on to the end: the last named
\* command, which does not depend on it, ran.
C9_Witness ==
    /\ ~stop_on_error
    /\ pc = "returned"
    /\ Len(named_commands) = 3
    /\ RanAndFailed(sorted_commands[1])
    /\ NoFailedDeps(sorted_commands[3])
    /\ Cmd(sorted_commands[3]).exit_code = <<0>>

\* C10: at most one child process is running, it is the one run waits for,
\* and every other launched command has terminated with its exit code stored.
C10_OneActiveProcess ==
    LET running == {ref \in Refs : Cmd(ref).process = "running"} IN
      /\ Cardinality(running) <= 1
      /\ \A ref \in running : pc = "wait" /\ sorted_commands[i] = ref
      /\ \A ref \in Refs \ running :
           Launched(ref) => (Cmd(ref).process = "terminated" /\ Cmd(ref).exit_code # None)

\* the third command is running after the first two have terminated
C10_Witness ==
    /\ pc = "wait"
    /\ i = 3
    /\ Cmd(sorted_commands[3]).process = "running"
    /\ Cmd(sorted_commands[1]).process = "terminated"
    /\ Cmd(sorted_commands[2]).process = "terminated"
    /\ Range(Cmd(sorted_commands[3]).depends_on) = {}

\* ------------------------------------------------------------------ C15..C18
\* run's loop is at work or has ended (by return or by an exception of run)
InRun ==
    \/ pc \in {"loop", "wait", "returned"}
    \/ pc = "raised" /\ error.kind \in {"DependencyNotCompleted", "LaunchFailure"}

\* a step in which a process is started for ref
Starts(ref) == Cmd(ref).process # "running" /\ (Cmd(ref).process)' = "running"

\* the commands launched so far are the first ones of the order
LaunchedIsPrefix ==
    \A p, q \in 1..Len(sorted_commands) :
        (p < q /\ Launched(sorted_commands[q])) => Launched(sorted_commands[p])

\* run has returned after its loop went through the whole order
RanToEnd == pc = "returned" /\ i > Len(sorted_commands)

\* C15: commands are launched in the scheduler's order, each at most once:
\* a step that starts a process starts it for the command at the loop's
\* position, which had no process before, and for no other; at every point
\* of a run the launched commands are a prefix of the order (under
\* stop_on_error and without it); and when run returns after its loop went
\* through the whole order every command of the order stands in it once and
\* has been launched and waited for.
C15_LaunchInOrderOnce ==
    /\ [](InRun => LaunchedIsPrefix)
    /\ [](RanToEnd =>
            \A ref \in Refs :
                /\ Count(ref) = 1
                /\ Cmd(ref).process = "terminated"
                /\ Cmd(ref).exit_code # None)
    /\ [][\A ref \in Refs :
            Starts(ref) =>
                /\ pc = "loop"
                /\ i \in 1..Len(sorted_commands)
                /\ ref = sorted_commands[i]
                /\ Cmd(ref).process = "None"
                /\ \A other \in Refs \ {ref} : ~Starts(other)]_vars

\* Five commands, one of which failed, have all been run to the end of the
\* order without stop_on_error.
C15_Witness ==
    /\ RanToEnd
    /\ ~stop_on_error
    /\ Len(sorted_commands) = 5
    /\ \E ref \in Refs : Cmd(ref).exit_code = <<1>>
    /\ \A ref \in Refs : Cmd(ref).process = "terminated"

\* C16: at every point of a run completed is the key set of results; every
\* name in them is the name of a named command that has been launched and
\* has terminated, mapped by results to that command; no unnamed command's
\* outcome is in either.
C16_CompletedIsResultsKeys ==
    InRun =>
        /\ completed = DOMAIN results
        /\ NoName \notin completed
        /\ \A name \in completed :
             /\ name \in Keys
             /\ results[name] = all_commands(name)
             /\ Cmd(results[name]).process = "terminated"
             /\ Cmd(results[name]).exit_code # None

\* Two named commands are recorded and an unnamed command has terminated
\* since without being recorded.
C16_Witness ==
    /\ pc = "loop"
    /\ Cardinality(completed) = 2
    /\ DOMAIN results = completed
    /\ Len(unnamed_commands) >= 1
    /\ unnamed_commands[1].process = "terminated"

\* C17: once scheduling has passed, under either stop_on_error setting, a
\* named command the loop reaches has every declared dependency in
\* completed, and the 'Dependency not completed' error is raised only for
\* an unnamed command.
C17_NamedDependenciesCompleted ==
    /\ (pc \in {"loop", "wait"} /\ i \in 1..Len(sorted_commands)
          /\ sorted_commands[i].named) =>
         Range(Cmd(sorted_commands[i]).depends_on) \subseteq completed
    /\ (pc = "raised" /\ error.kind = "DependencyNotCompleted") =>
         /\ ~sorted_commands[i].named
         /\ error.name = NoName

\* Without stop_on_error a named command is launched after the command it
\* depends on has failed.
C17_Witness ==
    /\ pc = "wait"
    /\ ~stop_on_error
    /\ sorted_commands[i].named
    /\ \E dep \in Range(Cmd(sorted_commands[i]).depends_on) :
         /\ dep \in completed
         /\ Cmd(results[dep]).exit_code = <<1>>

\* the named commands that cannot be put in a topological order: those on a
\* cycle and those that depend, directly or transitively, on one of them
Unorderable == {name \in Keys : name \in OnCycle \/ TransDeps(name) \cap OnCycle # {}}

\* C18 as stated: every name of the reported remaining set lies on a cycle.
C18_RemainingOnCycle ==
    (pc = "raised" /\ error.kind = "CircularDependency") =>
        error.remaining \subseteq OnCycle

\* C18 as amended: the reported remaining set is exactly the named commands
\* that lie on a dependency cycle or depend, directly or transitively, on a
\* command that lies on one.
C18_RemainingUnorderable ==
    (pc = "raised" /\ error.kind = "CircularDependency") =>
        /\ error.remaining = Unorderable
        /\ OnCycle # {}

\* The error names a command that is on no cycle but depends on one.
C18_Witness ==
    /\ pc = "raised"
    /\ error.kind = "CircularDependency"
    /\ \E name \in error.remaining : name \notin OnCycle

\* ------------------------------------------------------------------ C11
\* main has ended the program
Exited == exit_status # None

\* C11: when main has run the configuration and a launched command exited
\* non-zero, the program ends with the execution-failure status, which is
\* neither success nor the not-found nor the configuration-error status.
C11_FailureExitStatus ==
    (Exited /\ \E ref \in Refs : RanAndFailed(ref)) =>
        /\ exit_status = <<ExitFailure>>
        /\ ExitFailure \notin {ExitSuccess, ExitNotFound, ExitConfigError}

\* ------------------------------------------------------------------ C12, C13, C19, C20
FileLineNos == 1..Len(stepfile.lines)

\* every annotation of the file has its parenthesised name
WellFormed == \A k \in FileLineNos : stepfile.lines[k].head # <<>> => stepfile.lines[k].arg # ""

\* the lines `@depends_group(...) [name =] command`
DependsGroupLineNos == {k \in FileLineNos : stepfile.lines[k].head = AtDependsGroup}

\* the last line that declares the command called name
LastDeclaration(k) ==
    /\ stepfile.lines[k].name # NoName
    /\ \A later \in (k + 1)..Len(stepfile.lines) :
         stepfile.lines[later].name # stepfile.lines[k].name

Members(g) == IF g \in DOMAIN groups THEN groups[g] ELSE {}

\* parse has been called and has returned or raised
Parsed == pc # "parse"

\* C12: a well-formed file with @depends_group lines is accepted by parse;
\* the named command such a line declares has, after expansion, exactly the
\* members of the listed group as its dependencies, and in the scheduler's
\* order every member stands before it.
C12_DependsGroupAccepted ==
    (Parsed /\ stepfile.exists /\ WellFormed /\ DependsGroupLineNos # {}) =>
        /\ ~(pc = "raised" /\ error.kind = "InvalidSyntax")
        /\ config = "StepfileConfig"
        /\ \A k \in DependsGroupLineNos :
             LastDeclaration(k) =>
                 LET name == stepfile.lines[k].name
                 IN /\ name \in Keys
                    /\ DepSet(name) = Members(stepfile.lines[k].arg)
                    /\ SchedJustReturned =>
                         \A m \in DepSet(name) :
                             PosOf(all_commands(m)) < PosOf(all_commands(name))

ParseRaised == pc = "raised" /\ error.kind \in {"FileNotFound", "InvalidSyntax"}

\* C13: when parse raises (missing file, malformed annotation) the step
\* that raises leaves the runner's config, with everything it owns, as it
\* was before the call; after it the runner still has no config, and no
\* process has been launched.
C13_FailedParseLeavesConfig ==
    /\ [](ParseRaised =>
            /\ config = "None"
            /\ named_commands = <<>>
            /\ unnamed_commands = <<>>
            /\ groups = <<>>
            /\ variables = <<>>
            /\ NoLaunch
            /\ sorted_commands = <<>>)
    /\ [][(pc = "parse" /\ pc' = "raised") =>
            UNCHANGED <<config, named_commands, unnamed_commands, groups, variables>>]_vars

\* parse raised at the third line, after a line that declared a grouped
\* named command and a line that assigned a variable.
C13_Witness ==
    /\ ParseRaised
    /\ error.kind = "InvalidSyntax"
    /\ Len(stepfile.lines) = 3
    /\ stepfile.lines[1] = Line(AtGroup, "g1", "a", "")
    /\ stepfile.lines[2] = Line(<<>>, "", "V", "v")
    /\ config = "None"

\* the groups the file declares on unnamed commands only
MemberlessGroups ==
    {g \in GroupNames :
        /\ \E k \in FileLineNos : stepfile.lines[k].head = AtGroup /\ stepfile.lines[k].arg = g
        /\ \A k \in FileLineNos :
             (stepfile.lines[k].head = AtGroup /\ stepfile.lines[k].arg = g) =>
                 stepfile.lines[k].name = NoName}

DependsLineNos == {k \in FileLineNos : stepfile.lines[k].head = AtDepends}

\* C19: in a well-formed file whose dependencies all name groups declared
\* without a named member, the dependencies contribute nothing (every
\* command's expanded depends_on is empty) and neither parse with its group
\* expansion nor the scheduler raises.
C19_MemberlessGroupNoError ==
    (/\ Parsed
     /\ stepfile.exists
     /\ WellFormed
     /\ DependsGroupLineNos = {}
     /\ DependsLineNos # {}
     /\ \A k \in DependsLineNos : stepfile.lines[k].arg \in MemberlessGroups) =>
        /\ config = "StepfileConfig"
        /\ \A ref \in Refs : Cmd(ref).depends_on = <<>>
        /\ ~(pc = "raised" /\
             error.kind \in {"InvalidSyntax", "UnknownDependency", "CircularDependency"})

\* no member of a group bears the name of another group
NoNestedGroups ==
    \A g \in DOMAIN groups : \A x \in groups[g] : x \in DOMAIN groups => x = g

\* C20: when no group has a member that is itself the name of another
\* group, a second application of the group expansion leaves the dependency
\* set of every command, named and unnamed, as the first left it.
C20_ExpansionIdempotent ==
    [][(pc = "sort" /\ pc' = "expanded" /\ NoNestedGroups) =>
         /\ \A k \in 1..Len(named_commands) :
              Range(named_commands'[k].depends_on) = Range(named_commands[k].depends_on)
         /\ \A k \in 1..Len(unnamed_commands) :
              Range(unnamed_commands'[k].depends_on) = Range(unnamed_commands[k].depends_on)
         /\ Len(named_commands') = Len(named_commands)
         /\ Len(unnamed_commands') = Len(unnamed_commands)]_vars

\* The expansion has been applied twice to a command that depends on a
\* group of two members.
C20_Witness ==
    /\ pc = "expanded"
    /\ NoNestedGroups
    /\ "g1" \in DOMAIN groups
    /\ groups["g1"] = {"a", "b"}
    /\ \E k \in 1..Len(named_commands) :
         /\ named_commands[k].name = "c"
         /\ Range(named_commands[k].depends_on) = {"a", "b"}
         /\ Len(named_commands[k].depends_on) = 2

\* C20 without its condition: the second expansion never changes a
\* dependency set.
C20_AlwaysIdempotent ==
    [][(pc = "sort" /\ pc' = "expanded") =>
         \A k \in 1..Len(named_commands) :
              Range(named_commands'[k].depends_on) = Range(named_commands[k].depends_on)]_vars

\* ------------------------------------------------------------------ C14
\* what the claim says a piece of the text becomes
ByKey(piece) ==
    IF ~piece.var THEN piece
    ELSE IF piece.s \in DOMAIN variables THEN Literal(variables[piece.s])
    ELSE IF piece.s \in DOMAIN environ THEN Literal(environ[piece.s])
    ELSE piece

\* C14: every $NAME$ of the text is replaced by variables[NAME] when NAME is
\* a key of variables, else by the environment's value when NAME is set
\* there, else left as it is; whatever strings the values are.
C14_ExpandsByKey ==
    expanded # None =>
        /\ Len(expanded[1]) = Len(text)
        /\ \A k \in 1..Len(text) : expanded[1][k] = ByKey(text[k])

\* ------------------------------------------------------------------ C21, C22
\* the Command still refers to the Popen object execute_command gave it
HoldsProcess(ref) == Cmd(ref).process # "None"

\* C21: after run has returned, at the end of the order or by an early
\* halt, no Command of the configuration and no Command of the results map
\* holds a process handle.
C21_NoHandleAfterRun ==
    pc = "returned" =>
        /\ \A ref \in Refs : ~HoldsProcess(ref)
        /\ \A name \in DOMAIN results : ~HoldsProcess(results[name])

\* the named command stored under name declares membership in g
Declares(name, g) ==
    /\ name \in Keys
    /\ g \in Range(named_commands[IndexOf(name)].groups)

\* C22: after parse a name is in groups[g] exactly when the command stored
\* under that name declares membership in g, whatever the number of lines
\* that declare the name.
C22_GroupsMatchCommands ==
    (Parsed /\ config = "StepfileConfig") =>
        \A g \in GroupNames \cup DOMAIN groups :
            \A name \in Keys \cup Members(g) :
                name \in Members(g) <=> Declares(name, g)

\* ------------------------------------------------------------------ C23
\* run has ended: it has returned, or an exception has left it
RunEnded == pc \in {"returned", "raised"}

\* every child that is waited for terminates
ChildrenTerminate == [](pc = "wait" => <>(pc # "wait"))

\* C23: the scheduler always terminates, with an order or with an error;
\* a run either ends or stays for ever in the wait for a child process, and
\* nowhere else; so when every launched child terminates, run ends.
C23_Terminates ==
    /\ <>SchedFinished
    /\ <>RunEnded \/ <>[](pc = "wait")
    /\ ChildrenTerminate => <>RunEnded

\* A run with stop_on_error has waited for five children and returned at
\* the end of the order.
C23_Witness ==
    /\ pc = "returned"
    /\ stop_on_error
    /\ i = 6
    /\ Len(sorted_commands) = 5
    /\ \A ref \in Refs : Cmd(ref).exit_code = <<0>>

====
